---- MODULE Spec2Model ----
(***************************************************************************)
(* patrol: Protocol-schema validation of pandas / polars DataFrames.        *)
(*                                                                         *)
(* The library is a set of synchronous functions over immutable inputs:    *)
(*   patrol/_core/validation.py      validate_dataframe for pandas          *)
(*   patrol/polars.py                validate_dataframe and the            *)
(*                                   DataFrame[Schema](data) wrapper        *)
(*   patrol/_pandas/validator_impl.py apply_validator (Range)               *)
(* Each function is an operator below; each action is one call of one of   *)
(* them on the inputs the initial state drew, and records what the call    *)
(* raised, what it returned and which column checks it ran.                *)
(***************************************************************************)
EXTENDS Integers, Sequences, FiniteSets, TLC

VARIABLES backend, schema, heap, rawdata, series, validator, col_name, call

vars == <<backend, schema, heap, rawdata, series, validator, col_name, call>>

(***************************************************************************)
(* Bounds of the model.                                                    *)
(***************************************************************************)
\* longest enumerated schema (number of declared columns)
MaxCols == 2
\* longest enumerated series handed to apply_validator
MaxLen == 2
\* series values and Range bounds are drawn from -1 .. MaxVal
MaxVal == 2

(***************************************************************************)
(* Python values.                                                          *)
(***************************************************************************)
\* Python types that a schema annotation may name, by qualified name.
PyTypes == {"int", "float", "str", "bool", "datetime.datetime", "datetime.date",
            "datetime.timedelta", "bytes"}

\* type.__name__ : the qualified name without its module.
TypeName(t) ==
    CASE t = "datetime.datetime" -> "datetime"
      [] t = "datetime.date" -> "date"
      [] t = "datetime.timedelta" -> "timedelta"
      [] OTHER -> t

\* the f-string rendering of a type object: <class 'qualified.name'>
TypeRepr(t) == <<"<class '", t, "'>">>

\* str(n) for the integers the model formats into messages
IntStr(n) ==
    CASE n = -2 -> "-2" [] n = -1 -> "-1" [] n = 0 -> "0" [] n = 1 -> "1"
      [] n = 2 -> "2" [] n = 3 -> "3" [] n = 4 -> "4" [] n = 150 -> "150"
      [] OTHER -> "<int>"

\* No exception: the call returned normally.
NoExc == [type |-> "None", msg |-> <<>>]

ValueError(msg) == [type |-> "ValueError", msg |-> msg]

TypeError(msg) == [type |-> "TypeError", msg |-> msg]

\* patrol.validators.Range(min, max): a value object holding the two bounds.
Range(min, max) == [cls |-> "Range", min |-> min, max |-> max]

\* Annotation metadata that is no Range (any other object put in Annotated).
OtherValidator == [cls |-> "str", min |-> 0, max |-> 0]

isinstance_Range(v) == v.cls = "Range"

(***************************************************************************)
(* Schemas: a Protocol class is its ordered annotations.  An annotation is *)
(* a type, possibly wrapped as Annotated[type, metadata...].               *)
(***************************************************************************)
Field(n, t, md) == [name |-> n, type |-> t, metadata |-> md]

\* typing.get_type_hints(schema), called without include_extras: the
\* ordered mapping name -> type, with Annotated[T, ...] replaced by T.
get_type_hints(sch) == [i \in 1..Len(sch) |-> [name |-> sch[i].name, type |-> sch[i].type]]

(***************************************************************************)
(* Tables: a function from the column names present to the column (its     *)
(* dtype, written as the dtype prints, and its values).                    *)
(***************************************************************************)
Column(dt, vals) == [dtype |-> dt, values |-> vals]

Columns(df) == DOMAIN df

PolarsIntDTypes == {"Int8", "Int16", "Int32", "Int64", "UInt8", "UInt16", "UInt32", "UInt64"}

PolarsDTypes == PolarsIntDTypes \cup {"Float32", "Float64", "Utf8", "Boolean",
                                      "Datetime", "Date", "Duration"}

PandasIntDTypes == {"int8", "int16", "int32", "int64", "uint8", "uint16", "uint32", "uint64"}

PandasDTypes == PandasIntDTypes \cup {"float32", "float64", "object", "bool",
                                      "datetime64[ns]", "timedelta64[ns]"}

(***************************************************************************)
(* patrol/_core/validation.py (pandas)                                     *)
(***************************************************************************)
\* the keys of TYPE_CHECKERS
core_TYPE_CHECKERS == {"int", "float", "str", "bool"}

\* TYPE_CHECKERS[t](series): the pandas.api.types predicate on the dtype.
\* Object columns of the model hold str values only, for which
\* is_string_dtype answers True.
core_type_checker(t, col) ==
    CASE t = "int" -> col.dtype \in PandasIntDTypes
      [] t = "float" -> col.dtype \in {"float32", "float64"}
      [] t = "str" -> col.dtype = "object"
      [] t = "bool" -> col.dtype = "bool"
      [] OTHER -> FALSE

core_check_column_exists(df, name) ==
    IF name \notin Columns(df)
    THEN ValueError(<<"Missing column: ", name>>)
    ELSE NoExc

\* slip: a type with no checker is passed over instead of refused
core_check_column_type_skip(df, name, expected_type) ==
    IF expected_type \notin core_TYPE_CHECKERS
    THEN NoExc
    ELSE IF ~core_type_checker(expected_type, df[name])
    THEN TypeError(<<"Column '", name, "' expected ", TypeName(expected_type),
                     ", got ", df[name].dtype>>)
    ELSE NoExc

core_check_column_type(df, name, expected_type) ==
    IF expected_type \notin core_TYPE_CHECKERS
    THEN ValueError(<<"Unsupported type: ">> \o TypeRepr(expected_type))
    ELSE IF ~core_type_checker(expected_type, df[name])
    THEN TypeError(<<"Column '", name, "' expected ", TypeName(expected_type),
                     ", got ", df[name].dtype>>)
    ELSE NoExc

\* One entry of the record of checks a validation ran, in the order run.
Check(kind, name) == [check |-> kind, col |-> name]

\* the for loop of validate_dataframe from its i-th item on; an exception
\* raised by a check leaves the loop and the function.
RECURSIVE core_validate_loop(_, _, _, _)
core_validate_loop(df, hints, i, trace) ==
    IF i > Len(hints)
    THEN [exc |-> NoExc, trace |-> trace]
    ELSE LET c == hints[i]
             t1 == Append(trace, Check("exists", c.name))
             e1 == core_check_column_exists(df, c.name)
             t2 == Append(t1, Check("type", c.name))
         IN  IF e1 # NoExc
             THEN [exc |-> e1, trace |-> t1]
             ELSE LET e2 == core_check_column_type(df, c.name, c.type)
                  IN  IF e2 # NoExc
                      THEN [exc |-> e2, trace |-> t2]
                      ELSE core_validate_loop(df, hints, i + 1, t2)

Reverse(q) == [i \in 1..Len(q) |-> q[Len(q) + 1 - i]]

\* slip: the columns are visited last-declared first
core_validate_dataframe_reversed(df, sch) ==
    core_validate_loop(df, Reverse(get_type_hints(sch)), 1, <<>>)

\* slip: the function returns after the first column of the loop
core_validate_dataframe_first(df, sch) ==
    core_validate_loop(df, [i \in 1..(IF sch = <<>> THEN 0 ELSE 1) |-> get_type_hints(sch)[i]],
                       1, <<>>)

core_validate_dataframe(df, sch) == core_validate_loop(df, get_type_hints(sch), 1, <<>>)

(***************************************************************************)
(* patrol/polars.py                                                        *)
(***************************************************************************)
\* the keys of TYPE_CHECKERS
polars_TYPE_CHECKERS == {"int", "float", "str", "bool"}

\* TYPE_CHECKERS[t](dtype)
polars_type_checker(t, dtype) ==
    CASE t = "int" -> dtype \in PolarsIntDTypes
      [] t = "float" -> dtype \in {"Float32", "Float64"}
      [] t = "str" -> dtype = "Utf8"
      [] t = "bool" -> dtype = "Boolean"
      [] OTHER -> FALSE

polars_check_column_exists(df, name) ==
    IF name \notin Columns(df)
    THEN ValueError(<<"Missing column: ", name>>)
    ELSE NoExc

\* slip: the test of the checker's answer is not negated
polars_check_column_type_inverted(df, name, expected_type) ==
    IF expected_type \notin polars_TYPE_CHECKERS
    THEN ValueError(<<"Unsupported type: ">> \o TypeRepr(expected_type))
    ELSE LET col_dtype == df[name].dtype
         IN  IF polars_type_checker(expected_type, col_dtype)
             THEN TypeError(<<"Column '", name, "' expected ", TypeName(expected_type),
                              ", got ", col_dtype>>)
             ELSE NoExc

polars_check_column_type(df, name, expected_type) ==
    IF expected_type \notin polars_TYPE_CHECKERS
    THEN ValueError(<<"Unsupported type: ">> \o TypeRepr(expected_type))
    ELSE LET col_dtype == df[name].dtype
         IN  IF ~polars_type_checker(expected_type, col_dtype)
             THEN TypeError(<<"Column '", name, "' expected ", TypeName(expected_type),
                              ", got ", col_dtype>>)
             ELSE NoExc

RECURSIVE polars_validate_loop(_, _, _, _)
polars_validate_loop(df, hints, i, trace) ==
    IF i > Len(hints)
    THEN [exc |-> NoExc, trace |-> trace]
    ELSE LET c == hints[i]
             t1 == Append(trace, Check("exists", c.name))
             e1 == polars_check_column_exists(df, c.name)
             t2 == Append(t1, Check("type", c.name))
         IN  IF e1 # NoExc
             THEN [exc |-> e1, trace |-> t1]
             ELSE LET e2 == polars_check_column_type(df, c.name, c.type)
                  IN  IF e2 # NoExc
                      THEN [exc |-> e2, trace |-> t2]
                      ELSE polars_validate_loop(df, hints, i + 1, t2)

\* slip: a column the schema does not declare is refused
polars_validate_dataframe_strict(df, sch) ==
    IF \E n \in Columns(df) : \A i \in 1..Len(sch) : sch[i].name # n
    THEN [exc |-> ValueError(<<"Unexpected column">>), trace |-> <<>>]
    ELSE polars_validate_loop(df, get_type_hints(sch), 1, <<>>)

polars_validate_dataframe(df, sch) == polars_validate_loop(df, get_type_hints(sch), 1, <<>>)

\* pl.DataFrame(data) on a dict of Python lists: a new table whose dtypes
\* polars infers from the element type of each list.
pl_DataFrame(data) ==
    [n \in DOMAIN data |->
        Column(CASE data[n].pytype = "int" -> "Int64"
                 [] data[n].pytype = "float" -> "Float64"
                 [] data[n].pytype = "str" -> "Utf8"
                 [] OTHER -> "Boolean",
               data[n].values)]

\* DataFrame.__class_getitem__(schema): the subclass TypedDataFrame, which
\* differs from DataFrame in its _schema alone.  None is the unbound class.
DataFrame_class_getitem(sch) == [schema_ |-> sch, bound |-> TRUE]

DataFrame_unbound == [schema_ |-> <<>>, bound |-> FALSE]

\* slip: a table handed in is copied like any other data
DataFrame_new_copy(cls, data, h) ==
    LET isframe == data.kind = "frame"
        h1 == IF isframe THEN Append(h, h[data.ref]) ELSE Append(h, pl_DataFrame(data.dict))
        instance == Len(h1)
        v == IF cls.bound
             THEN polars_validate_dataframe(h1[instance], cls.schema_)
             ELSE [exc |-> NoExc, trace |-> <<>>]
    IN  IF v.exc # NoExc
        THEN [exc |-> v.exc, ret |-> 0, heap |-> h, trace |-> v.trace]
        ELSE [exc |-> NoExc, ret |-> instance, heap |-> h1, trace |-> v.trace]

\* DataFrame.__new__(cls, data): data is a reference to a table of the heap
\* (isinstance(data, pl.DataFrame)) or a dict.  Yields what was raised, the
\* reference returned (0: nothing returned) and the heap afterwards.
DataFrame_new(cls, data, h) ==
    LET isframe == data.kind = "frame"
        h1 == IF isframe THEN h ELSE Append(h, pl_DataFrame(data.dict))
        instance == IF isframe THEN data.ref ELSE Len(h1)
        v == IF cls.bound
             THEN polars_validate_dataframe(h1[instance], cls.schema_)
             ELSE [exc |-> NoExc, trace |-> <<>>]
    IN  IF v.exc # NoExc
        THEN [exc |-> v.exc, ret |-> 0, heap |-> h, trace |-> v.trace]
        ELSE [exc |-> NoExc, ret |-> instance, heap |-> h1, trace |-> v.trace]

(***************************************************************************)
(* patrol/_pandas/validator_impl.py                                        *)
(***************************************************************************)
\* slip: the bounds are taken as exclusive
validate_range_strict(s, v, name) ==
    IF (\E i \in 1..Len(s) : s[i] <= v.min) \/ (\E i \in 1..Len(s) : s[i] >= v.max)
    THEN ValueError(<<"Column '", name, "': values must be in range [",
                      IntStr(v.min), ", ", IntStr(v.max), "]">>)
    ELSE NoExc

\* (series < min).any() or (series > max).any()
validate_range(s, v, name) ==
    IF (\E i \in 1..Len(s) : s[i] < v.min) \/ (\E i \in 1..Len(s) : s[i] > v.max)
    THEN ValueError(<<"Column '", name, "': values must be in range [",
                      IntStr(v.min), ", ", IntStr(v.max), "]">>)
    ELSE NoExc

apply_validator(s, v, name) ==
    IF isinstance_Range(v)
    THEN validate_range(s, v, name)
    ELSE ValueError(<<"Unknown validator type: ">> \o TypeRepr(v.cls))

(***************************************************************************)
(* Inputs.                                                                 *)
(***************************************************************************)
Backends == {"pandas", "polars"}

Names == {"a", "b", "c"}

\* the annotations enumerated for one column name
FieldsOf(n) == {Field(n, "int", <<>>), Field(n, "int", <<Range(0, 1)>>),
                Field(n, "str", <<>>), Field(n, "datetime.datetime", <<>>)}

AllFields == UNION {FieldsOf(n) : n \in Names}

\* a class body cannot declare one name twice
UniqueNames(sch) == \A i, j \in 1..Len(sch) : sch[i].name = sch[j].name => i = j

Schemas == UNION {{sch \in [1..k -> AllFields] : UniqueNames(sch)} : k \in 0..MaxCols}

IntDType(b) == IF b = "pandas" THEN "int64" ELSE "Int64"

StrDType(b) == IF b = "pandas" THEN "object" ELSE "Utf8"

\* the columns enumerated for one column name of a table
ColumnChoices(b) == {Column(IntDType(b), <<0, 1>>), Column(IntDType(b), <<0, 2>>),
                     Column(StrDType(b), <<"x">>)}

Tables(b) == UNION {[present -> ColumnChoices(b)] : present \in SUBSET Names}

DTypes(b) == IF b = "pandas" THEN PandasDTypes ELSE PolarsDTypes

EmptyTable == [n \in {} |-> Column("Int64", <<>>)]

EmptyDict == [n \in {} |-> [pytype |-> "int", values |-> <<>>]]

\* dicts of Python lists, as handed to DataFrame[Schema]({...})
RawDicts == UNION {[present -> {[pytype |-> "int", values |-> <<0, 1>>],
                                [pytype |-> "str", values |-> <<"x">>]}]
                   : present \in SUBSET {"a", "b"}}

SeriesOfLen(k) == [1..k -> -1..MaxVal]

AllSeries == UNION {SeriesOfLen(k) : k \in 0..MaxLen}

Validators == {Range(lo, hi) : lo \in 0..1, hi \in 0..1} \cup {OtherValidator}

\* the schemas and tables of the test suite
MultiTypeSchema == <<Field("int_col", "int", <<>>), Field("float_col", "float", <<>>),
                     Field("str_col", "str", <<>>), Field("bool_col", "bool", <<>>)>>

DatetimeSchema == <<Field("created_at", "datetime.datetime", <<>>),
                    Field("event_date", "datetime.date", <<>>),
                    Field("duration", "datetime.timedelta", <<>>)>>

AgeSchema == <<Field("age", "int", <<Range(0, 150)>>)>>

MultiTypeTable(b) ==
    IF b = "pandas"
    THEN [n \in {"int_col", "float_col", "str_col", "bool_col"} |->
            CASE n = "int_col" -> Column("int64", <<1, 2, 3>>)
              [] n = "float_col" -> Column("float64", <<1, 2, 3>>)
              [] n = "str_col" -> Column("object", <<"a", "b", "c">>)
              [] OTHER -> Column("bool", <<TRUE, FALSE, TRUE>>)]
    ELSE [n \in {"int_col", "float_col", "str_col", "bool_col"} |->
            CASE n = "int_col" -> Column("Int64", <<1, 2, 3>>)
              [] n = "float_col" -> Column("Float64", <<1, 2, 3>>)
              [] n = "str_col" -> Column("Utf8", <<"a", "b", "c">>)
              [] OTHER -> Column("Boolean", <<TRUE, FALSE, TRUE>>)]

\* the tables of the datetime tests: each column holds its date/time dtype
\* or the wrong dtype its test gives it
DatetimeTables ==
    {[n \in {"created_at", "event_date", "duration"} |->
        CASE n = "created_at" -> Column(d1, <<>>)
          [] n = "event_date" -> Column(d2, <<>>)
          [] OTHER -> Column(d3, <<>>)]
     : d1 \in {"Datetime", "Utf8"}, d2 \in {"Date", "Int64"}, d3 \in {"Duration", "Float64"}}

AgeTables(b) == {[n \in {"age"} |-> Column(IntDType(b), vals)]
                 : vals \in {<<25, 30, 45, 100>>, <<25, -5, 30>>, <<25, 200, 30>>, <<0, 150>>}}

NoCall == [fn |-> "none", exc |-> NoExc, ret |-> 0, trace |-> <<>>, arg |-> "", cls |-> DataFrame_unbound]

NoApply == /\ series = <<>>
           /\ validator = Range(0, 0)
           /\ col_name = "age"

\* a schema and a table over the enumerated names
InitEnumerated ==
    /\ backend \in Backends
    /\ schema \in Schemas
    /\ \E t \in Tables(backend) : heap = <<t>>
    /\ rawdata = EmptyDict
    /\ NoApply

\* one declared column of any Python type over one column of any dtype
InitTypes ==
    /\ backend \in Backends
    /\ \E t \in PyTypes : schema = <<Field("a", t, <<>>)>>
    /\ \E d \in DTypes(backend) : heap = <<[n \in {"a"} |-> Column(d, <<>>)]>>
    /\ rawdata = EmptyDict
    /\ NoApply

InitTests ==
    /\ backend \in Backends
    /\ \/ schema = MultiTypeSchema /\ heap = <<MultiTypeTable(backend)>>
       \/ /\ backend = "polars"
          /\ schema = DatetimeSchema
          /\ \E t \in DatetimeTables : heap = <<t>>
       \/ schema = AgeSchema /\ \E t \in AgeTables(backend) : heap = <<t>>
    /\ rawdata = EmptyDict
    /\ NoApply

\* DataFrame[Schema] called on a dict
InitDict ==
    /\ backend = "polars"
    /\ schema \in {sch \in Schemas : Len(sch) <= 1}
    /\ heap = <<>>
    /\ rawdata \in RawDicts
    /\ NoApply

\* apply_validator called on a series
InitApply ==
    /\ backend = "pandas"
    /\ schema = <<>>
    /\ heap = <<EmptyTable>>
    /\ rawdata = EmptyDict
    /\ series \in AllSeries
    /\ validator \in Validators
    /\ col_name \in {"age", "a"}

Init ==
    /\ call = NoCall
    /\ \/ InitEnumerated
       \/ InitTypes
       \/ InitTests
       \/ InitDict
       \/ InitApply

(***************************************************************************)
(* Calls.  The caller holds the table heap[1] when the heap has one.        *)
(***************************************************************************)
Called(fn, exc, ret, trace, arg, cls) ==
    [fn |-> fn, exc |-> exc, ret |-> ret, trace |-> trace, arg |-> arg, cls |-> cls]

\* _check_column_exists(df, name)
CheckColumnExists ==
    /\ Len(heap) >= 1
    /\ \E n \in Names :
         LET e == IF backend = "pandas"
                  THEN core_check_column_exists(heap[1], n)
                  ELSE polars_check_column_exists(heap[1], n)
         IN  call' = Called("_check_column_exists", e, 0, <<>>, n, DataFrame_unbound)
    /\ UNCHANGED <<backend, schema, heap, rawdata, series, validator, col_name>>

\* _check_column_type(df, name, expected_type) on a column the table has
CheckColumnType ==
    /\ Len(heap) >= 1
    /\ \E i \in 1..Len(schema) :
         /\ schema[i].name \in Columns(heap[1])
         /\ LET e == IF backend = "pandas"
                     THEN core_check_column_type(heap[1], schema[i].name, schema[i].type)
                     ELSE polars_check_column_type(heap[1], schema[i].name, schema[i].type)
            IN  call' = Called("_check_column_type", e, 0, <<>>, schema[i].name,
                               DataFrame_unbound)
    /\ UNCHANGED <<backend, schema, heap, rawdata, series, validator, col_name>>

\* validate_dataframe(df, schema)
ValidateDataframe ==
    /\ Len(heap) >= 1
    /\ LET v == IF backend = "pandas"
                THEN core_validate_dataframe(heap[1], schema)
                ELSE polars_validate_dataframe(heap[1], schema)
       IN  call' = Called("validate_dataframe", v.exc, 0, v.trace, "", DataFrame_unbound)
    /\ UNCHANGED <<backend, schema, heap, rawdata, series, validator, col_name>>

\* DataFrame[schema](df) and DataFrame(df) on the table the caller holds
NewFromFrame ==
    /\ backend = "polars"
    /\ Len(heap) >= 1
    /\ \E cls \in {DataFrame_class_getitem(schema), DataFrame_unbound} :
         LET r == DataFrame_new(cls, [kind |-> "frame", ref |-> 1, dict |-> EmptyDict], heap)
         IN  /\ call' = Called("DataFrame", r.exc, r.ret, r.trace, "frame", cls)
             /\ heap' = r.heap
    /\ UNCHANGED <<backend, schema, rawdata, series, validator, col_name>>

\* DataFrame[schema](dict) and DataFrame(dict)
NewFromDict ==
    /\ backend = "polars"
    /\ Len(heap) = 0
    /\ \E cls \in {DataFrame_class_getitem(schema), DataFrame_unbound} :
         LET r == DataFrame_new(cls, [kind |-> "dict", ref |-> 0, dict |-> rawdata], heap)
         IN  /\ call' = Called("DataFrame", r.exc, r.ret, r.trace, "dict", cls)
             /\ heap' = r.heap
    /\ UNCHANGED <<backend, schema, rawdata, series, validator, col_name>>

\* apply_validator(series, validator, col_name)
ApplyValidator ==
    /\ backend = "pandas"
    /\ call' = Called("apply_validator", apply_validator(series, validator, col_name),
                      0, <<>>, col_name, DataFrame_unbound)
    /\ UNCHANGED <<backend, schema, heap, rawdata, series, validator, col_name>>

Next ==
    \/ CheckColumnExists
    \/ CheckColumnType
    \/ ValidateDataframe
    \/ NewFromFrame
    \/ NewFromDict
    \/ ApplyValidator

Spec == Init /\ [][Next]_vars

(***************************************************************************)
(* Vocabulary of the properties.                                           *)
(***************************************************************************)
\* the table the caller holds and hands to the call
Table == heap[1]

\* the state follows a validation of Table against schema: a call of
\* validate_dataframe, or of DataFrame[schema] on the table itself
IsWrapperCall == call.fn = "DataFrame" /\ call.arg = "frame" /\ call.cls.bound

IsValidation == call.fn = "validate_dataframe" \/ IsWrapperCall

\* the error taxonomy, as the messages the callers match
MissingColumn(n) == [type |-> "ValueError", msg |-> <<"Missing column: ", n>>]

UnsupportedType(t) == [type |-> "ValueError", msg |-> <<"Unsupported type: ", "<class '", t, "'>">>]

TypeMismatch(n, t, dt) ==
    [type |-> "TypeError",
     msg |-> <<"Column '", n, "' expected ", TypeName(t), ", got ", dt>>]

ConstraintViolation(n, lo, hi) ==
    [type |-> "ValueError",
     msg |-> <<"Column '", n, "': values must be in range [", IntStr(lo), ", ", IntStr(hi), "]">>]

\* the active backend's registry
Registered(t) ==
    IF backend = "pandas" THEN t \in core_TYPE_CHECKERS ELSE t \in polars_TYPE_CHECKERS

\* the registry predicate of a registered logical type on a column
Predicate(t, col) ==
    IF backend = "pandas" THEN core_type_checker(t, col) ELSE polars_type_checker(t, col.dtype)

Satisfies(t, col) == Registered(t) /\ Predicate(t, col)

Present(df, f) == f.name \in Columns(df)

\* the column exists and its physical type satisfies the declared type
TypeOk(df, f) == Present(df, f) /\ Satisfies(f.type, df[f.name])

InRange(vals, v) == \A k \in 1..Len(vals) : v.min <= vals[k] /\ vals[k] <= v.max

\* every Range attached to the field holds of every value of the column
ConstraintsOk(df, f) ==
    \A k \in 1..Len(f.metadata) :
        isinstance_Range(f.metadata[k]) => InRange(df[f.name].values, f.metadata[k])

Conforms(df, sch) == \A i \in 1..Len(sch) : TypeOk(df, sch[i]) /\ ConstraintsOk(df, sch[i])

\* C1: a table in which every declared column exists with a satisfying
\* physical type and passing constraints validates without raising on both
\* backends, and DataFrame[S](T) on an already-built table returns T itself:
\* the same object, no copy made, the table as it was.
C1_ConformingTableReturnedAsIs ==
    [][(Len(heap) >= 1 /\ Conforms(heap[1], schema))
        => /\ call'.fn = "validate_dataframe" => call'.exc = NoExc /\ heap' = heap
           /\ (call'.fn = "DataFrame" /\ call'.arg = "frame" /\ call'.cls.bound)
                => /\ call'.exc = NoExc
                   /\ call'.ret = 1
                   /\ heap' = heap]_vars

C1_Witness ==
    /\ IsWrapperCall
    /\ Len(schema) >= 2
    /\ \E i \in 1..Len(schema) : schema[i].metadata # <<>>
    /\ Conforms(Table, schema)
    /\ call.exc = NoExc
    /\ call.ret = 1

\* the first declared column absent from the table
FirstMissing(df, sch) ==
    CHOOSE i \in 1..Len(sch) :
        /\ ~Present(df, sch[i])
        /\ \A j \in 1..(i - 1) : Present(df, sch[j])

HasMissing(df, sch) == \E i \in 1..Len(sch) : ~Present(df, sch[i])

\* C2 as stated: whenever a declared column is absent, validation fails with
\* MissingColumn naming the first absent column in declaration order, and
\* that existence check is the last check evaluated.
C2_MissingAlwaysReported ==
    (IsValidation /\ HasMissing(Table, schema))
        => LET m == FirstMissing(Table, schema)
           IN  /\ call.exc = MissingColumn(schema[m].name)
               /\ call.trace # <<>>
               /\ call.trace[Len(call.trace)] = Check("exists", schema[m].name)

\* C2 amended: whenever a declared column is absent, validation fails and the
\* failing check is the last one evaluated; the failure is MissingColumn
\* naming the first absent column in declaration order provided every column
\* declared before it passes its type check, and otherwise the type failure of
\* an earlier column.
C2_FirstMissingReported ==
    (IsValidation /\ HasMissing(Table, schema))
        => LET m == FirstMissing(Table, schema)
               earlierOk == \A j \in 1..(m - 1) : TypeOk(Table, schema[j])
               last == call.trace[Len(call.trace)]
           IN  /\ call.exc # NoExc
               /\ call.trace # <<>>
               /\ earlierOk
                    => /\ call.exc = MissingColumn(schema[m].name)
                       /\ last = Check("exists", schema[m].name)
                       /\ Len(call.trace) = 2 * (m - 1) + 1
               /\ ~earlierOk
                    => /\ call.exc.msg[1] # "Missing column: "
                       /\ last.check = "type"
                       /\ \E j \in 1..(m - 1) : last.col = schema[j].name /\ ~TypeOk(Table, schema[j])
               /\ \A k \in 1..Len(call.trace) :
                    \A j \in (m + 1)..Len(schema) : call.trace[k].col # schema[j].name

C2_Witness ==
    /\ IsValidation
    /\ Len(schema) >= 2
    /\ ~Present(Table, schema[1])
    /\ ~Present(Table, schema[2])
    /\ call.exc = MissingColumn(schema[1].name)

\* a second witness of the amended case: the earlier column's failure wins
C2_WitnessEarlier ==
    /\ IsValidation
    /\ Len(schema) >= 2
    /\ Present(Table, schema[1])
    /\ ~Present(Table, schema[2])
    /\ call.exc.type = "TypeError"

\* the declared field a direct check call was made for
FieldOfCall == CHOOSE i \in 1..Len(schema) : schema[i].name = call.arg

BrokenRanges(df, f) ==
    {k \in 1..Len(f.metadata) :
        isinstance_Range(f.metadata[k]) /\ ~InRange(df[f.name].values, f.metadata[k])}

FirstBrokenRange(df, f) ==
    f.metadata[CHOOSE k \in BrokenRanges(df, f) : \A l \in BrokenRanges(df, f) : k <= l]

\* C4 as stated: DataFrame[S](T), with every declared column of a
\* satisfying type, raises the ConstraintViolation of a Range(min, max) that
\* some value of its column breaks, and raises nothing when every value lies
\* within every attached range.
C4_RangeEnforcedByWrapper ==
    (IsWrapperCall /\ \A i \in 1..Len(schema) : TypeOk(Table, schema[i]))
        => IF Conforms(Table, schema)
           THEN call.exc = NoExc
           ELSE \E i \in 1..Len(schema) :
                    /\ BrokenRanges(Table, schema[i]) # {}
                    /\ \E k \in BrokenRanges(Table, schema[i]) :
                         call.exc = ConstraintViolation(schema[i].name,
                                                        schema[i].metadata[k].min,
                                                        schema[i].metadata[k].max)

DeclaredNames(sch) == {sch[i].name : i \in 1..Len(sch)}

ExtraColumns(df, sch) == Columns(df) \ DeclaredNames(sch)

Restrict(df, keep) == [n \in keep |-> df[n]]

\* validate_dataframe of the active backend
Outcome(df, sch) ==
    IF backend = "pandas"
    THEN core_validate_dataframe(df, sch)
    ELSE polars_validate_dataframe(df, sch)

\* C5: the outcome of validating a table (success, or the failure raised) is
\* the outcome of validating the same table without any set of its
\* undeclared columns; with no declared column failing, it is success.
C5_ExtraColumnsIgnored ==
    IsValidation
        => /\ \A E \in SUBSET ExtraColumns(Table, schema) :
                Outcome(Restrict(Table, Columns(Table) \ E), schema).exc = call.exc
           /\ (\A i \in 1..Len(schema) : TypeOk(Table, schema[i])) => call.exc = NoExc

C5_Witness ==
    /\ IsValidation
    /\ Len(schema) >= 1
    /\ \E n \in ExtraColumns(Table, schema) : Table[n].dtype \in {"Utf8", "object"}
    /\ call.exc = NoExc

HasUnregistered(sch) == \E i \in 1..Len(sch) : ~Registered(sch[i].type)

\* C6 as stated: a schema declaring a logical type absent from the active
\* registry always fails validation with UnsupportedType of such a type.
C6_UnsupportedAlwaysReported ==
    (IsValidation /\ HasUnregistered(schema))
        => \E i \in 1..Len(schema) :
             ~Registered(schema[i].type) /\ call.exc = UnsupportedType(schema[i].type)

\* C6 amended: a schema declaring a logical type absent from the active
\* registry always fails validation; the type check of that column raises
\* UnsupportedType whatever the column's physical type, and validation raises
\* that UnsupportedType whenever the column exists in the table and every
\* column declared before it passes its checks.
C6_UnsupportedReportedWhenReached ==
    /\ (call.fn = "_check_column_type" /\ ~Registered(schema[FieldOfCall].type))
        => call.exc = UnsupportedType(schema[FieldOfCall].type)
    /\ IsValidation
        => \A i \in 1..Len(schema) :
             ~Registered(schema[i].type)
               => /\ call.exc # NoExc
                  /\ (Present(Table, schema[i]) /\ \A j \in 1..(i - 1) : TypeOk(Table, schema[j]))
                       => /\ call.exc = UnsupportedType(schema[i].type)
                          /\ call.trace[Len(call.trace)] = Check("type", schema[i].name)

C6_Witness ==
    /\ IsValidation
    /\ Len(schema) >= 2
    /\ Registered(schema[1].type)
    /\ ~Registered(schema[2].type)
    /\ Present(Table, schema[2])
    /\ call.exc = UnsupportedType(schema[2].type)

\* the polars dtype each date/time logical type is stored as
DateTimeDType(t) ==
    CASE t = "datetime.datetime" -> "Datetime"
      [] t = "datetime.date" -> "Date"
      [] OTHER -> "Duration"

\* C7 as stated: on polars, DataFrame[DatetimeSchema](T) returns T when the
\* three columns hold their date/time dtypes, and otherwise raises the
\* TypeMismatch of the first column holding another dtype.
C7_PolarsDateTimeSupported ==
    (backend = "polars" /\ IsWrapperCall /\ schema = DatetimeSchema)
        => LET wrong == {i \in 1..3 : Table[schema[i].name].dtype # DateTimeDType(schema[i].type)}
           IN  IF wrong = {}
               THEN call.exc = NoExc /\ call.ret = 1
               ELSE LET i == CHOOSE w \in wrong : \A x \in wrong : w <= x
                    IN  call.exc = TypeMismatch(schema[i].name, schema[i].type,
                                                Table[schema[i].name].dtype)

\* every schema made of declarations of sch: any selection, in any order
SubSchemas(sch) ==
    UNION {{A \in [1..k -> {sch[i] : i \in 1..Len(sch)}] : UniqueNames(A)} : k \in 0..Len(sch)}

\* C8: a table that passes validation against a schema passes validation
\* against every schema whose declarations are among that schema's.
C8_WidthExtension ==
    (IsValidation /\ call.exc = NoExc)
        => \A A \in SubSchemas(schema) : Outcome(Table, A).exc = NoExc

C8_Witness ==
    /\ IsValidation
    /\ Len(schema) >= 2
    /\ call.exc = NoExc
    /\ \E A \in SubSchemas(schema) : Len(A) = 1 /\ A[1] = schema[2]

\* the failure of one declared column, in the order existence, unsupported
\* type, type mismatch, constraints as attached
ColumnFailure(df, f) ==
    IF ~Present(df, f) THEN MissingColumn(f.name)
    ELSE IF ~Registered(f.type) THEN UnsupportedType(f.type)
    ELSE IF ~Predicate(f.type, df[f.name]) THEN TypeMismatch(f.name, f.type, df[f.name].dtype)
    ELSE IF BrokenRanges(df, f) # {}
         THEN ConstraintViolation(f.name, FirstBrokenRange(df, f).min, FirstBrokenRange(df, f).max)
    ELSE NoExc

Failing(df, sch) == {i \in 1..Len(sch) : ColumnFailure(df, sch[i]) # NoExc}

\* C9 as stated: the failure surfaced is the first in declaration order and,
\* within a column, in the order existence, type, constraints; an absent
\* column reaches no type check and no later column is checked.
C9_FailFastOrder ==
    IsValidation
        => IF Failing(Table, schema) = {}
           THEN call.exc = NoExc
           ELSE LET i == CHOOSE w \in Failing(Table, schema) : \A x \in Failing(Table, schema) : w <= x
                IN  /\ call.exc = ColumnFailure(Table, schema[i])
                    /\ \A k \in 1..Len(call.trace) :
                         \A j \in (i + 1)..Len(schema) : call.trace[k].col # schema[j].name
                    /\ ~Present(Table, schema[i])
                         => call.trace[Len(call.trace)] = Check("exists", schema[i].name)

WithoutConstraints(sch) == [i \in 1..Len(sch) |-> Field(sch[i].name, sch[i].type, <<>>)]

\* C9 without its constraint step: what the ordering comes to when the
\* attached constraints are left out of the schema.
C9_OrderOfExistenceAndType ==
    IsValidation
        => LET sch == WithoutConstraints(schema)
           IN  IF Failing(Table, sch) = {}
               THEN call.exc = NoExc /\ Len(call.trace) = 2 * Len(sch)
               ELSE LET i == CHOOSE w \in Failing(Table, sch) : \A x \in Failing(Table, sch) : w <= x
                    IN  /\ call.exc = ColumnFailure(Table, sch[i])
                        /\ Len(call.trace) = 2 * (i - 1) + (IF Present(Table, sch[i]) THEN 2 ELSE 1)

\* C10: apply_validator(series, Range(min, max), col_name) raises the
\* ValueError naming col_name and [min, max] exactly when some value is below
\* min or above max (bounds inclusive, the empty series passes), and leaves
\* the series as it was.
C10_RangeInclusive ==
    [][(call'.fn = "apply_validator" /\ isinstance_Range(validator))
        => /\ series' = series
           /\ IF \E k \in 1..Len(series) : series[k] < validator.min \/ series[k] > validator.max
              THEN call'.exc = ConstraintViolation(col_name, validator.min, validator.max)
              ELSE call'.exc = NoExc]_vars

C10_Witness ==
    /\ call.fn = "apply_validator"
    /\ isinstance_Range(validator)
    /\ validator.min < validator.max
    /\ \E k \in 1..Len(series) : series[k] = validator.min
    /\ \E k \in 1..Len(series) : series[k] = validator.max
    /\ call.exc = NoExc

====
